---- MODULE Spec2Model ----
(***************************************************************************)
(* Field-to-term resolution of lexicons.bio: scripts/dwc_crossref.py       *)
(* (console report) and scripts/generate_dwc_html.py (HTML pages).         *)
(*                                                                         *)
(* Strings that are only compared for equality are TLA+ strings.  Lexicon  *)
(* paths and context keys are tested with Python's substring operator, so  *)
(* they are sequences of one-character strings.  A dict is a function; a   *)
(* dict whose order is read (the rule table, the loaded lexicons) is a     *)
(* sequence of its items.                                                  *)
(***************************************************************************)
EXTENDS Integers, Sequences, FiniteSets, TLC

VARIABLES
    dwc_terms,            \* term name -> term, as returned by load_dwc_terms
    lexicons,             \* the lexicon JSON documents on disk, in sorted path order
    script,               \* which script is running: "none", "crossref" or "html"
    pc,                   \* position inside the running script's main()
    ran,                  \* the scripts that have run to their end
    all_lexicon_fields,   \* crossref: path -> def name -> field list
    all_fields,           \* crossref: build_field_set(all_lexicon_fields)
    contextual_resolved,  \* crossref: field -> term
    todo,                 \* crossref: rest of sorted(all_fields) still to classify
    mapped,               \* crossref: field -> term
    unmapped,             \* crossref: set of fields
    unimplemented,        \* crossref: term name -> term
    pct,                  \* crossref: the coverage percentage of the summary
    model_props,          \* html: per model, field -> metadata (flattened defs)
    global_stats,         \* html: compute_global_stats of the index page
    index_stats,          \* html: per model, compute_model_stats of the index cards
    pages,                \* html: the model pages generated so far
    call,                 \* a function of the scripts called on its own: name and arguments
    result                \* what that call returned

crossref_vars == <<all_lexicon_fields, all_fields, contextual_resolved, todo, mapped,
                   unmapped, unimplemented, pct>>

html_vars == <<model_props, global_stats, index_stats, pages>>

main_vars == <<dwc_terms, lexicons, script, pc, ran, crossref_vars, html_vars>>

call_vars == <<call, result>>

vars == <<main_vars, call_vars>>

----------------------------------------------------------------------------
(* Bounds of the model *)

\* largest number of terms in the vocabulary
MaxTerms == 2

\* largest number of (lexicon, def, field) entries over all lexicon documents
MaxEntries == 2

----------------------------------------------------------------------------
(* Python values *)

\* the empty dict
EmptyDict == [x \in {} |-> x]

\* d[k] = v on a dict
DictSet(d, k, v) == [x \in (DOMAIN d) \cup {k} |-> IF x = k THEN v ELSE d[x]]

\* `sub in s` for two strings
Contains(s, sub) ==
    \E i \in 0..(Len(s) - Len(sub)) : SubSeq(s, i + 1, i + Len(sub)) = sub

\* Ascending order of the names of the model, as sorted() orders str values:
\* the class names, which begin with a capital, then the field and term names
NameOrder ==
    <<"Event", "Identification", "MaterialEntity", "Occurrence", "Record-level", "Taxon",
      "associatedMedia", "blobs", "createdAt", "dateIdentified", "eventDate", "kingdom",
      "notes", "occurrenceID", "occurrenceRemarks", "scientificName", "subject">>

Rank(n) == CHOOSE i \in 1..Len(NameOrder) : NameOrder[i] = n

\* sorted(S) for a set of names
RECURSIVE Sorted(_)
Sorted(S) ==
    IF S = {} THEN <<>>
    ELSE LET m == CHOOSE x \in S : \A y \in S : Rank(x) <= Rank(y)
         IN  <<m>> \o Sorted(S \ {m})

\* the largest of a set of positions
Last(S) == CHOOSE x \in S : \A y \in S : y <= x

\* no term: Python's None
NoTerm == [name |-> "", class |-> ""]

\* a / b * 100 as the exact fraction, or the error Python raises
Percent(a, b) ==
    IF b = 0 THEN [error |-> "ZeroDivisionError"] ELSE [num |-> a * 100, den |-> b]

\* the int 0 of the else branches
Zero == [num |-> 0, den |-> 1]

\* no function is called on its own
NoCall == [fn |-> "none"]

\* a call that has not returned, and one that returned v
Pending == [status |-> "pending"]

Returned(v) == [status |-> "returned", value |-> v]

----------------------------------------------------------------------------
(* Constants of scripts/dwc_crossref.py *)

RELEVANT_CLASSES ==
    {"Occurrence", "Event", "Location", "Taxon", "Identification", "Organism"}

FIELD_TO_DWC ==
    [notes     |-> "occurrenceRemarks",
     comment   |-> "identificationRemarks",
     createdAt |-> "dateIdentified"]

ATPROTO_FIELDS ==
    {"subject", "subjectIndex", "isAgreement", "confidence", "taxonId", "taxon",
     "location", "image", "alt", "aspectRatio", "width", "height"}

KeyIdentification ==
    <<"i", "d", "e", "n", "t", "i", "f", "i", "c", "a", "t", "i", "o", "n">>

KeyOccurrence ==
    <<"o", "c", "c", "u", "r", "r", "e", "n", "c", "e">>

\* field -> {context key: term name}, both levels in declaration order
CONTEXTUAL_MAPPINGS ==
    << [field |-> "createdAt",
        ctx_map |-> << [ctx_key |-> KeyIdentification, dwc_name |-> "dateIdentified"] >>],
       [field |-> "blobs",
        ctx_map |-> << [ctx_key |-> KeyOccurrence, dwc_name |-> "associatedMedia"] >>],
       [field |-> "recordedBy",
        ctx_map |-> << [ctx_key |-> KeyOccurrence, dwc_name |-> "recordedBy"] >>] >>

----------------------------------------------------------------------------
(* The inputs: the vocabulary and the lexicon documents *)

TermNames ==
    {"subject", "createdAt", "dateIdentified", "occurrenceRemarks", "associatedMedia"}

\* one class of RELEVANT_CLASSES, one class only the HTML pages cover, one
\* class nothing covers
Classes == {"Identification", "Record-level", "MaterialEntity"}

FieldNames == {"subject", "createdAt", "dateIdentified", "notes", "blobs"}

LexiconDir ==
    <<"l", "e", "x", "i", "c", "o", "n", "s", "/", "b", "i", "o", "/",
      "l", "e", "x", "i", "c", "o", "n", "s", "/">>

DotJson == <<".", "j", "s", "o", "n">>

IdentificationJson == LexiconDir \o KeyIdentification \o DotJson

OccurrenceJson == LexiconDir \o KeyOccurrence \o DotJson

\* the lexicon files of the repository, in the order find_lexicons returns them
LexiconPaths == <<IdentificationJson, OccurrenceJson>>

\* the defs of a lexicon document; "main" is a record def, whose properties are
\* nested under record
DefNames == <<"main">>

Term(n, c) == [name |-> n, class |-> c]

\* the subsets of S of at most k elements
RECURSIVE UpTo(_, _)
UpTo(S, k) ==
    IF k = 0 THEN {{}}
    ELSE LET P == UpTo(S, k - 1) IN P \cup {s \cup {e} : s \in P, e \in S}

Vocabularies ==
    UNION { [D -> Classes] : D \in UpTo(TermNames, MaxTerms) }

Entries == (1..Len(LexiconPaths)) \X (1..Len(DefNames)) \X FieldNames

EntrySets == UpTo(Entries, MaxEntries)

\* def j of lexicon i, holding the entries E
DefBody(E, i, j) ==
    LET fs == {f \in FieldNames : <<i, j, f>> \in E}
    IN  IF DefNames[j] = "main"
        THEN [def_name |-> "main", properties |-> {}, required |-> {},
              record |-> fs, record_required |-> {}]
        ELSE [def_name |-> DefNames[j], properties |-> fs, required |-> {},
              record |-> {}, record_required |-> {}]

\* the JSON document of lexicon i
Document(E, i) ==
    [path |-> LexiconPaths[i],
     defs |-> [j \in 1..Len(DefNames) |-> DefBody(E, i, j)]]

----------------------------------------------------------------------------
(* scripts/dwc_crossref.py *)

\* the str values that the term loader searches and splits, as characters
RecordLevel == <<"R", "e", "c", "o", "r", "d", "-", "l", "e", "v", "e", "l">>

Marker11 == <<"1", ".", "1">>

MarkerTerms == <<"t", "e", "r", "m", "s">>

ClassWord == <<"C", "l", "a", "s", "s">>

UseWithIRI == <<"U", "s", "e", "W", "i", "t", "h", "I", "R", "I">>

\* s.rstrip("/")
RECURSIVE rstrip(_)
rstrip(s) ==
    IF s # <<>> /\ s[Len(s)] = "/" THEN rstrip(SubSeq(s, 1, Len(s) - 1)) ELSE s

\* s.split("/")[-1]: what follows the last "/", or all of s
last_of_split(s) ==
    LET slashes == {i \in 1..Len(s) : s[i] = "/"}
    IN  IF slashes = {} THEN s
        ELSE SubSeq(s, (CHOOSE i \in slashes : \A k \in slashes : k <= i) + 1, Len(s))

\* lines 86-94 (generate_dwc_html.py has the same function, lines 84-90)
extract_class(organized_in) ==
    IF organized_in = <<>> THEN RecordLevel
    ELSE LET last == last_of_split(rstrip(organized_in))
         IN  IF last \in {Marker11, MarkerTerms} THEN RecordLevel ELSE last

\* the term that lines 76-82 build of a row; label stands for the columns
\* that are copied as they are (label, definition, term_iri)
term_of_row(row) ==
    [name |-> row.term_localName, label |-> row.label,
     class |-> extract_class(row.organized_in)]

\* read_row where a later row of the same name replaces the term
read_row_overwrite(terms, row) ==
    IF row.status # "recommended" THEN terms
    ELSE IF Contains(row.rdf_type, ClassWord) THEN terms
    ELSE IF Contains(row.organized_in, UseWithIRI) THEN terms
    ELSE DictSet(terms, row.term_localName, term_of_row(row))

\* one pass of the loop of load_dwc_terms, lines 63-82
read_row(terms, row) ==
    IF row.status # "recommended" THEN terms
    ELSE IF Contains(row.rdf_type, ClassWord) THEN terms
    ELSE IF Contains(row.organized_in, UseWithIRI) THEN terms
    ELSE IF row.term_localName \notin DOMAIN terms
         THEN DictSet(terms, row.term_localName, term_of_row(row))
    ELSE terms

\* the loop over the rows that follow, from the terms read so far
RECURSIVE read_rows(_, _)
read_rows(terms, rows) ==
    IF rows = <<>> THEN terms ELSE read_rows(read_row(terms, Head(rows)), Tail(rows))

\* lines 59-83 (generate_dwc_html.py has the same function, lines 62-81)
load_dwc_terms(rows) == read_rows(EmptyDict, rows)

\* load_lexicon_fields: the defs that have properties (their own, else those
\* of their record), with their field names
load_lexicon_fields(lex) ==
    LET props(def_body) ==
            IF def_body.properties # {} THEN def_body.properties ELSE def_body.record
    IN  SelectSeq([j \in 1..Len(lex.defs) |->
                      [def_name |-> lex.defs[j].def_name, fields |-> props(lex.defs[j])]],
                  LAMBDA d : d.fields # {})

build_field_set(lexicon_fields) ==
    UNION { UNION { lexicon_fields[i].defs[j].fields : j \in 1..Len(lexicon_fields[i].defs) } :
              i \in 1..Len(lexicon_fields) }

\* ContextualWrites with the context key tested as a prefix of the path
ContextualWrites_prefix(rule, lexicon_fields, terms) ==
    { <<i, j>> \in (1..Len(lexicon_fields)) \X (1..Len(rule.ctx_map)) :
        /\ Len(rule.ctx_map[j].ctx_key) <= Len(lexicon_fields[i].path)
        /\ SubSeq(lexicon_fields[i].path, 1, Len(rule.ctx_map[j].ctx_key))
              = rule.ctx_map[j].ctx_key
        /\ \E k \in 1..Len(lexicon_fields[i].defs) :
              /\ rule.field \in lexicon_fields[i].defs[k].fields
              /\ rule.ctx_map[j].dwc_name \in DOMAIN terms }

\* The assignments to contextual_resolved[field] that the loops of one rule
\* make (lines 150-155), as (lexicon index, context index) pairs
ContextualWrites(rule, lexicon_fields, terms) ==
    { <<i, j>> \in (1..Len(lexicon_fields)) \X (1..Len(rule.ctx_map)) :
        /\ Contains(lexicon_fields[i].path, rule.ctx_map[j].ctx_key)
        /\ \E k \in 1..Len(lexicon_fields[i].defs) :
              /\ rule.field \in lexicon_fields[i].defs[k].fields
              /\ rule.ctx_map[j].dwc_name \in DOMAIN terms }

\* LastWrite with the context keys as the outer loop
LastWrite_keys_outside(W) ==
    CHOOSE w \in W : \A v \in W : v[2] < w[2] \/ (v[2] = w[2] /\ v[1] <= w[1])

\* the last of them in loop order: lexicons outside, context keys inside
LastWrite(W) ==
    CHOOSE w \in W : \A v \in W : v[1] < w[1] \/ (v[1] = w[1] /\ v[2] <= w[2])

\* resolve_contextual without the test that the target is in the vocabulary
resolve_contextual_unchecked(rules, lexicon_fields, terms) ==
    LET writes(rule) ==
            { <<i, j>> \in (1..Len(lexicon_fields)) \X (1..Len(rule.ctx_map)) :
                /\ Contains(lexicon_fields[i].path, rule.ctx_map[j].ctx_key)
                /\ \E k \in 1..Len(lexicon_fields[i].defs) :
                      rule.field \in lexicon_fields[i].defs[k].fields }
        hit == {r \in 1..Len(rules) : writes(rules[r]) # {}}
        rule_of(f) == CHOOSE r \in hit : rules[r].field = f
    IN  [f \in {rules[r].field : r \in hit} |->
            LET r == rule_of(f)
                n == rules[r].ctx_map[LastWrite(writes(rules[r]))[2]].dwc_name
            IN  IF n \in DOMAIN terms THEN terms[n] ELSE [name |-> n, class |-> ""]]

\* contextual_resolved after the loops of lines 147-155
resolve_contextual(rules, lexicon_fields, terms) ==
    LET hit == {r \in 1..Len(rules) : ContextualWrites(rules[r], lexicon_fields, terms) # {}}
        rule_of(f) == CHOOSE r \in hit : rules[r].field = f
    IN  [f \in {rules[r].field : r \in hit} |->
            LET r == rule_of(f)
                w == LastWrite(ContextualWrites(rules[r], lexicon_fields, terms))
            IN  terms[rules[r].ctx_map[w[2]].dwc_name]]

\* resolve_field with the direct name match tried before the contextual mapping
resolve_field_direct_first(field, terms, resolved) ==
    IF field \in DOMAIN terms THEN terms[field]
    ELSE IF field \in DOMAIN resolved THEN resolved[field]
    ELSE IF field \in DOMAIN FIELD_TO_DWC /\ FIELD_TO_DWC[field] \in DOMAIN terms
         THEN terms[FIELD_TO_DWC[field]]
    ELSE NoTerm

\* resolve_field where a field that has a contextual rule is tried against no
\* other rule
resolve_field_contextual_only(field, terms, resolved) ==
    IF field \in DOMAIN resolved THEN resolved[field]
    ELSE IF \E r \in 1..Len(CONTEXTUAL_MAPPINGS) : CONTEXTUAL_MAPPINGS[r].field = field
         THEN NoTerm
    ELSE IF field \in DOMAIN terms THEN terms[field]
    ELSE IF field \in DOMAIN FIELD_TO_DWC /\ FIELD_TO_DWC[field] \in DOMAIN terms
         THEN terms[FIELD_TO_DWC[field]]
    ELSE NoTerm

\* resolve_field without the test that the manual rename's target exists
resolve_field_stale_manual(field, terms, resolved) ==
    IF field \in DOMAIN resolved THEN resolved[field]
    ELSE IF field \in DOMAIN terms THEN terms[field]
    ELSE IF field \in DOMAIN FIELD_TO_DWC
         THEN IF FIELD_TO_DWC[field] \in DOMAIN terms
              THEN terms[FIELD_TO_DWC[field]]
              ELSE [name |-> FIELD_TO_DWC[field], class |-> ""]
    ELSE NoTerm

\* The if/elif chain of the classification loop (lines 162-172): the term a
\* field that is no infrastructure field maps to, or NoTerm in the else branch
resolve_field(field, terms, resolved) ==
    IF field \in DOMAIN resolved THEN resolved[field]
    ELSE IF field \in DOMAIN terms THEN terms[field]
    ELSE IF field \in DOMAIN FIELD_TO_DWC /\ FIELD_TO_DWC[field] \in DOMAIN terms
         THEN terms[FIELD_TO_DWC[field]]
    ELSE NoTerm

\* classify_field without the `continue` of line 160: an infrastructure field
\* goes on to the if/elif chain
classify_field_no_continue(field, m, u, terms, resolved) ==
    LET u1 == IF field \in ATPROTO_FIELDS THEN u \cup {field} ELSE u
        term == resolve_field(field, terms, resolved)
    IN  IF term # NoTerm
        THEN [mapped |-> DictSet(m, field, term), unmapped |-> u1]
        ELSE [mapped |-> m, unmapped |-> u1 \cup {field}]

\* classify_field without the else branch of lines 171-172
classify_field_no_else(field, m, u, terms, resolved) ==
    IF field \in ATPROTO_FIELDS
    THEN [mapped |-> m, unmapped |-> u \cup {field}]
    ELSE LET term == resolve_field(field, terms, resolved)
         IN  IF term # NoTerm
             THEN [mapped |-> DictSet(m, field, term), unmapped |-> u]
             ELSE [mapped |-> m, unmapped |-> u]

\* One pass of the classification loop (lines 157-172) on mapped m and unmapped u
classify_field(field, m, u, terms, resolved) ==
    IF field \in ATPROTO_FIELDS
    THEN [mapped |-> m, unmapped |-> u \cup {field}]
    ELSE LET term == resolve_field(field, terms, resolved)
         IN  IF term # NoTerm
             THEN [mapped |-> DictSet(m, field, term), unmapped |-> u]
             ELSE [mapped |-> m, unmapped |-> u \cup {field}]

\* find_unimplemented without the RELEVANT_CLASSES test
find_unimplemented_any_class(terms, m) ==
    LET mapped_dwc_names == {m[f].name : f \in DOMAIN m}
    IN  [n \in {x \in DOMAIN terms : x \notin mapped_dwc_names} |-> terms[n]]

\* lines 174-179
find_unimplemented(terms, m) ==
    LET mapped_dwc_names == {m[f].name : f \in DOMAIN m}
    IN  [n \in {x \in DOMAIN terms :
                  terms[x].class \in RELEVANT_CLASSES /\ x \notin mapped_dwc_names}
            |-> terms[n]]

\* coverage without the test of the denominator
coverage_unguarded(n_mapped, n_unimplemented) ==
    Percent(n_mapped, n_mapped + n_unimplemented)

\* lines 225-226
coverage(n_mapped, n_unimplemented) ==
    LET total_relevant == n_mapped + n_unimplemented
    IN  IF total_relevant # 0 THEN Percent(n_mapped, total_relevant) ELSE Zero

\* the classification loop of lines 157-172 over the fields that follow
RECURSIVE classify(_, _, _, _, _)
classify(fields, m, u, terms, resolved) ==
    IF fields = <<>> THEN [mapped |-> m, unmapped |-> u]
    ELSE LET r == classify_field(Head(fields), m, u, terms, resolved)
         IN  classify(Tail(fields), r.mapped, r.unmapped, terms, resolved)

\* format_pct that cuts the fraction off
format_pct_truncated(p) ==
    IF "error" \in DOMAIN p THEN p ELSE p.num \div p.den

\* f"{pct:.0f}" of line 233: the nearest integer, the even one of two
format_pct(p) ==
    IF "error" \in DOMAIN p THEN p
    ELSE LET q == p.num \div p.den
             twice == 2 * (p.num % p.den)
         IN  IF twice > p.den \/ (twice = p.den /\ q % 2 = 1) THEN q + 1 ELSE q

\* a dict in the order of its keys' insertion: a sequence of [key, value]
\* items.  sorted(mapped.items()) of line 196; the keys are distinct
sorted_items(items) ==
    LET keys == Sorted({items[i].key : i \in 1..Len(items)})
    IN  [k \in 1..Len(keys) |-> items[CHOOSE i \in 1..Len(items) : items[i].key = keys[k]]]

\* lines 195-205: the mapped fields by class of their term
group_mapped(mapped_items) ==
    LET pairs == sorted_items(mapped_items)
        by_class(cls) == SelectSeq(pairs, LAMBDA it : it.value.class = cls)
        classes == Sorted({pairs[i].value.class : i \in 1..Len(pairs)})
    IN  [c \in 1..Len(classes) |->
            [cls |-> classes[c],
             lines |-> [i \in 1..Len(by_class(classes[c])) |->
                          [field |-> by_class(classes[c])[i].key,
                           term |-> by_class(classes[c])[i].value.name]]]]

\* group_unimplemented without the sorted() of line 220
group_unimplemented_unsorted(unimplemented_items) ==
    LET by_class2(cls) == SelectSeq(unimplemented_items, LAMBDA it : it.value.class = cls)
        classes == Sorted({unimplemented_items[i].value.class :
                             i \in 1..Len(unimplemented_items)})
    IN  [c \in 1..Len(classes) |->
            [cls |-> classes[c],
             lines |-> [i \in 1..Len(by_class2(classes[c])) |->
                          by_class2(classes[c])[i].value.name]]]

\* lines 214-222: the unimplemented terms by class
group_unimplemented(unimplemented_items) ==
    LET by_class2(cls) == SelectSeq(unimplemented_items, LAMBDA it : it.value.class = cls)
        classes == Sorted({unimplemented_items[i].value.class :
                             i \in 1..Len(unimplemented_items)})
    IN  [c \in 1..Len(classes) |->
            [cls |-> classes[c],
             lines |-> Sorted({by_class2(classes[c])[i].value.name :
                                 i \in 1..Len(by_class2(classes[c]))})]]

\* lines 193-222: the grouped listings of the report
print_report(mapped_items, unimplemented_items) ==
    [mapped |-> group_mapped(mapped_items),
     unimplemented |-> group_unimplemented(unimplemented_items)]

\* dwc_crossref.main, lines 131-233, as a function of the files it reads
crossref_main(docs, terms) ==
    LET lexicon_fields == [i \in 1..Len(docs) |->
                             [path |-> docs[i].path, defs |-> load_lexicon_fields(docs[i])]]
        resolved == resolve_contextual(CONTEXTUAL_MAPPINGS, lexicon_fields, terms)
        c == classify(Sorted(build_field_set(lexicon_fields)), EmptyDict, {}, terms, resolved)
        missing == find_unimplemented(terms, c.mapped)
        p == coverage(Cardinality(DOMAIN c.mapped), Cardinality(DOMAIN missing))
    IN  [mapped |-> c.mapped, unmapped |-> c.unmapped, unimplemented |-> missing,
         pct |-> p, printed |-> format_pct(p)]

----------------------------------------------------------------------------
(* scripts/generate_dwc_html.py *)

\* the lexicon and the classes of each model
MODELS ==
    << [name |-> "Occurrence", lexicon |-> OccurrenceJson,
        classes |-> {"Occurrence", "Event", "Location", "Record-level"}],
       [name |-> "Identification", lexicon |-> IdentificationJson,
        classes |-> {"Identification", "Taxon"}] >>

\* FIELD_TO_DWC of generate_dwc_html.py
HTML_FIELD_TO_DWC ==
    [notes      |-> "occurrenceRemarks",
     comment    |-> "identificationRemarks",
     blobs      |-> "associatedMedia",
     recordedBy |-> "recordedBy"]

\* ATPROTO_FIELDS of generate_dwc_html.py
HTML_ATPROTO_FIELDS ==
    {"subject", "subjectIndex", "isAgreement", "confidence", "taxonId",
     "taxon", "location", "image", "alt", "aspectRatio", "width", "height"}

\* load_lexicon: the document stored at a path
load_lexicon(docs, path) == docs[CHOOSE i \in 1..Len(docs) : docs[i].path = path]

\* the properties of a def: its own, else those of its record
get_def_properties(def_body) ==
    IF def_body.properties # {} THEN def_body.properties ELSE def_body.record

\* the required set that get_def_properties returns with the properties: that
\* of the def, or that of its record if the def has no properties of its own
get_def_required(def_body) ==
    IF def_body.properties # {} THEN def_body.required ELSE def_body.record_required

\* load_lexicon_properties_flat where the first def that has a field keeps it
load_lexicon_properties_flat_first(lex) ==
    LET defs_of(f) == {j \in 1..Len(lex.defs) : f \in get_def_properties(lex.defs[j])}
        first(f) == CHOOSE j \in defs_of(f) : \A k \in defs_of(f) : j <= k
    IN  [f \in UNION {get_def_properties(lex.defs[j]) : j \in 1..Len(lex.defs)} |->
            [required |-> f \in get_def_required(lex.defs[first(f)]),
             def |-> lex.defs[first(f)].def_name]]

\* the defs merged into one map; a later def overwrites an earlier one
load_lexicon_properties_flat(lex) ==
    LET defs_of(f) == {j \in 1..Len(lex.defs) : f \in get_def_properties(lex.defs[j])}
        last(f) == CHOOSE j \in defs_of(f) : \A k \in defs_of(f) : k <= j
    IN  [f \in UNION {get_def_properties(lex.defs[j]) : j \in 1..Len(lex.defs)} |->
            [required |-> f \in get_def_required(lex.defs[last(f)]),
             def |-> lex.defs[last(f)].def_name]]

\* FIELD_TO_DWC.get(field_name, field_name)
dwc_name_of(field_name) ==
    IF field_name \in DOMAIN HTML_FIELD_TO_DWC THEN HTML_FIELD_TO_DWC[field_name]
    ELSE field_name

dwc_term_for_field(field_name, terms) ==
    IF dwc_name_of(field_name) \in DOMAIN terms THEN terms[dwc_name_of(field_name)]
    ELSE NoTerm

\* lex_by_dwc / mapped_names: the term names that the fields of props map to
mapped_names(terms, props) ==
    { dwc_name_of(f) : f \in {g \in DOMAIN props :
                                g \notin HTML_ATPROTO_FIELDS /\ dwc_name_of(g) \in DOMAIN terms} }

\* mapped, total, missing and pct over the relevant terms
stats_of(relevant, names) ==
    LET n_mapped == Cardinality({t \in relevant : t.name \in names})
        total == Cardinality(relevant)
    IN  [mapped |-> n_mapped, total |-> total, missing |-> total - n_mapped,
         pct |-> IF total # 0 THEN Percent(n_mapped, total) ELSE Zero]

compute_model_stats(terms, lex_props, classes) ==
    LET relevant == {terms[n] : n \in {x \in DOMAIN terms : terms[x].class \in classes}}
    IN  stats_of(relevant, mapped_names(terms, lex_props))

RECURSIVE SumSeq(_)
SumSeq(q) == IF q = <<>> THEN 0 ELSE Head(q) + SumSeq(Tail(q))

compute_global_stats(terms, model_props_list) ==
    LET all_props == [f \in UNION {DOMAIN model_props_list[m] : m \in 1..Len(model_props_list)}
                        |-> TRUE]
        all_classes == UNION {MODELS[m].classes : m \in 1..Len(MODELS)}
        relevant == {terms[n] : n \in {x \in DOMAIN terms : terms[x].class \in all_classes}}
        total_fields ==
            SumSeq([m \in 1..Len(model_props_list) |->
                      Cardinality(DOMAIN model_props_list[m] \ HTML_ATPROTO_FIELDS)])
    IN  [total_fields |-> total_fields] @@ stats_of(relevant, mapped_names(terms, all_props))

\* the DwC column of render_def_table: per field, the linked term name or ""
render_def_table(def_body, terms) ==
    [f \in get_def_properties(def_body) |->
        LET dwc_term == dwc_term_for_field(f, terms)
        IN  IF dwc_term # NoTerm /\ f \notin HTML_ATPROTO_FIELDS THEN dwc_term.name ELSE ""]

\* render_dwc_tables: the fields that map to a term, the table of each class
\* that has terms (per term, in ascending order of name, the lexicon field
\* shown for it or ""), and the Lexicon-only listing.  lex_props is read in
\* the order of its keys; the documents of the model list their properties in
\* ascending order of name.
render_dwc_tables(classes, terms, lex_props) ==
    LET order == Sorted(DOMAIN lex_props)
        hits == {i \in 1..Len(order) :
                    /\ order[i] \notin HTML_ATPROTO_FIELDS
                    /\ dwc_name_of(order[i]) \in DOMAIN terms}
        mapped_lex_fields == {order[i] : i \in hits}
        lex_by_dwc == [n \in {dwc_name_of(order[i]) : i \in hits} |->
                          order[Last({i \in hits : dwc_name_of(order[i]) = n})]]
        ext_fields == {f \in DOMAIN lex_props :
                          f \notin mapped_lex_fields /\ f \notin HTML_ATPROTO_FIELDS}
        shown(name) == IF name \in DOMAIN lex_by_dwc THEN lex_by_dwc[name] ELSE ""
    IN  [mapped_lex_fields |-> mapped_lex_fields,
         tables |-> [cls \in {terms[n].class : n \in DOMAIN terms} \cap classes |->
                       LET cls_terms == Sorted({n \in DOMAIN terms : terms[n].class = cls})
                       IN  [i \in 1..Len(cls_terms) |->
                              [term |-> cls_terms[i], field |-> shown(cls_terms[i])]]],
         lexicon_only |-> Sorted(ext_fields)]

\* generate_model_page: the statistics, the def tables and the DwC alignment
\* tables of one model
generate_model_page(model, lex, lex_props, terms) ==
    [stats |-> compute_model_stats(terms, lex_props, model.classes),
     ref |-> [j \in 1..Len(lex.defs) |-> render_def_table(lex.defs[j], terms)],
     dwc |-> render_dwc_tables(model.classes, terms, lex_props)]

----------------------------------------------------------------------------
(* Actions.  The two scripts read the same files; each runs at most once, one
   at a time, in either order. *)

\* no script has started
NotStarted ==
    /\ script = "none"
    /\ pc = "start"
    /\ ran = {}
    /\ all_lexicon_fields = <<>>
    /\ all_fields = {}
    /\ contextual_resolved = EmptyDict
    /\ todo = <<>>
    /\ mapped = EmptyDict
    /\ unmapped = {}
    /\ unimplemented = EmptyDict
    /\ pct = Zero
    /\ model_props = <<>>
    /\ global_stats = EmptyDict
    /\ index_stats = <<>>
    /\ pages = <<>>

Init ==
    /\ dwc_terms \in { [n \in DOMAIN v |-> Term(n, v[n])] : v \in Vocabularies }
    /\ \E E \in EntrySets :
          lexicons = [i \in 1..Len(LexiconPaths) |-> Document(E, i)]
    /\ NotStarted
    /\ call = NoCall
    /\ result = Pending

\* dwc_crossref.main, lines 133-145: load the lexicons and flatten the fields
CrossrefLoad ==
    /\ script = "none" /\ "crossref" \notin ran
    /\ script' = "crossref"
    /\ all_lexicon_fields' =
          [i \in 1..Len(lexicons) |->
              [path |-> lexicons[i].path, defs |-> load_lexicon_fields(lexicons[i])]]
    /\ all_fields' = build_field_set(all_lexicon_fields')
    /\ pc' = "resolve"
    /\ UNCHANGED <<dwc_terms, lexicons, ran, contextual_resolved, todo, mapped, unmapped,
                   unimplemented, pct, html_vars>>
    /\ UNCHANGED call_vars

\* lines 147-155, and the sorted() of line 157
ResolveContextual ==
    /\ script = "crossref" /\ pc = "resolve"
    /\ contextual_resolved' =
          resolve_contextual(CONTEXTUAL_MAPPINGS, all_lexicon_fields, dwc_terms)
    /\ todo' = Sorted(all_fields)
    /\ pc' = "classify"
    /\ UNCHANGED <<dwc_terms, lexicons, script, ran, all_lexicon_fields, all_fields, mapped,
                   unmapped, unimplemented, pct, html_vars>>
    /\ UNCHANGED call_vars

\* one pass of the loop of lines 157-172
ClassifyField ==
    /\ script = "crossref" /\ pc = "classify" /\ todo # <<>>
    /\ LET r == classify_field(Head(todo), mapped, unmapped, dwc_terms, contextual_resolved)
       IN  /\ mapped' = r.mapped
           /\ unmapped' = r.unmapped
    /\ todo' = Tail(todo)
    /\ UNCHANGED <<dwc_terms, lexicons, script, pc, ran, all_lexicon_fields, all_fields,
                   contextual_resolved, unimplemented, pct, html_vars>>
    /\ UNCHANGED call_vars

\* lines 174-179
FindUnimplemented ==
    /\ script = "crossref" /\ pc = "classify" /\ todo = <<>>
    /\ unimplemented' = find_unimplemented(dwc_terms, mapped)
    /\ pc' = "summary"
    /\ UNCHANGED <<dwc_terms, lexicons, script, ran, all_lexicon_fields, all_fields,
                   contextual_resolved, todo, mapped, unmapped, pct, html_vars>>
    /\ UNCHANGED call_vars

\* lines 224-233, the end of main
Summary ==
    /\ script = "crossref" /\ pc = "summary"
    /\ pct' = coverage(Cardinality(DOMAIN mapped), Cardinality(DOMAIN unimplemented))
    /\ pc' = "start"
    /\ script' = "none"
    /\ ran' = ran \cup {"crossref"}
    /\ UNCHANGED <<dwc_terms, lexicons, all_lexicon_fields, all_fields,
                   contextual_resolved, todo, mapped, unmapped, unimplemented, html_vars>>
    /\ UNCHANGED call_vars

\* generate_dwc_html.main, lines 851-858: load the lexicon of every model
HtmlLoad ==
    /\ script = "none" /\ "html" \notin ran
    /\ script' = "html"
    /\ model_props' =
          [m \in 1..Len(MODELS) |->
              load_lexicon_properties_flat(load_lexicon(lexicons, MODELS[m].lexicon))]
    /\ pc' = "index"
    /\ UNCHANGED <<dwc_terms, lexicons, ran, crossref_vars, global_stats, index_stats, pages>>
    /\ UNCHANGED call_vars

\* lines 862-865: generate_index
GenerateIndex ==
    /\ script = "html" /\ pc = "index"
    /\ global_stats' = compute_global_stats(dwc_terms, model_props)
    /\ index_stats' =
          [m \in 1..Len(MODELS) |->
              compute_model_stats(dwc_terms, model_props[m], MODELS[m].classes)]
    /\ pc' = "pages"
    /\ UNCHANGED <<dwc_terms, lexicons, script, ran, crossref_vars, model_props, pages>>
    /\ UNCHANGED call_vars

\* one pass of the loop of lines 868-874: the page of the next model
GenerateModelPage ==
    /\ script = "html" /\ pc = "pages"
    /\ LET m == Len(pages) + 1
       IN  /\ pages' = Append(pages,
                   generate_model_page(MODELS[m], load_lexicon(lexicons, MODELS[m].lexicon),
                                       model_props[m], dwc_terms))
           /\ IF m = Len(MODELS)
              THEN pc' = "start" /\ script' = "none" /\ ran' = ran \cup {"html"}
              ELSE UNCHANGED <<pc, script, ran>>
    /\ UNCHANGED <<dwc_terms, lexicons, crossref_vars, model_props, global_stats,
                   index_stats>>
    /\ UNCHANGED call_vars

Next ==
    \/ CrossrefLoad
    \/ ResolveContextual
    \/ ClassifyField
    \/ FindUnimplemented
    \/ Summary
    \/ HtmlLoad
    \/ GenerateIndex
    \/ GenerateModelPage

Spec == Init /\ [][Next]_vars

----------------------------------------------------------------------------
(* The functions of the scripts, each called on its own on arguments that the
   runs above do not reach: term rows, grouping paths, rule tables of several
   keys, documents of several defs, dicts in any order of insertion. *)

\* largest number of "/"-separated segments of a grouping path
MaxSegments == 3

\* largest number of rows of the term file
MaxRows == 2

EventWord == <<"E", "v", "e", "n", "t">>

Segments == {<<>>, <<"a">>, Marker11, MarkerTerms, EventWord}

\* "/".join(q)
RECURSIVE Join(_)
Join(q) ==
    IF Len(q) = 1 THEN q[1] ELSE q[1] \o <<"/">> \o Join(Tail(q))

\* the strings of at most MaxSegments segments
Paths == { Join(q) : q \in UNION { [1..n -> Segments] : n \in 1..MaxSegments } }

RdfProperty == <<"P", "r", "o", "p", "e", "r", "t", "y">>

RdfsClass == <<"r", "d", "f", "s", ":">> \o ClassWord

\* the organized_in of an ungrouped term, of a term of class Event, and of an
\* IRI-only variant
RowPaths ==
    {<<>>, <<"t", "/">> \o EventWord, <<"t", "/", "a", "/">> \o UseWithIRI}

Rows ==
    [status : {"recommended", "deprecated"},
     rdf_type : {RdfProperty, RdfsClass},
     organized_in : RowPaths,
     term_localName : {"eventDate", "occurrenceID"},
     label : {"v1", "v2"}]

\* the term files of at most k rows
RowFiles(k) == UNION { [1..n -> Rows] : n \in 0..k }

\* largest number of context keys of a contextual rule
MaxKeys == 2

\* a context key that the paths of all lexicons contain
KeyBio == <<"b", "i", "o">>

ContextKeys == {KeyIdentification, KeyOccurrence, KeyBio}

RuleTargets == {"dateIdentified", "eventDate"}

\* {context key: term name} dicts of at most MaxKeys keys, in declaration order
CtxMaps ==
    { cm \in UNION { [1..n -> [ctx_key : ContextKeys, dwc_name : RuleTargets]] :
                       n \in 1..MaxKeys } :
        \A a, b \in DOMAIN cm : a # b => cm[a].ctx_key # cm[b].ctx_key }

\* rule tables with a rule for createdAt
RuleTables == { << [field |-> "createdAt", ctx_map |-> cm] >> : cm \in CtxMaps }

\* all_lexicon_fields of lexicons that define createdAt or nothing, in the
\* order of find_lexicons
LoadedFields ==
    { [i \in 1..Len(LexiconPaths) |->
         [path |-> LexiconPaths[i],
          defs |-> IF i \in D THEN << [def_name |-> "main", fields |-> {"createdAt"}] >>
                   ELSE <<>>]] :
      D \in SUBSET (1..Len(LexiconPaths)) }

TargetTerms == { [n \in D |-> Term(n, "Identification")] : D \in SUBSET RuleTargets }

\* a vocabulary of the classes Occurrence, Event and Taxon, and the target of
\* the manual rename of notes
ReportTerms ==
    {Term("occurrenceID", "Occurrence"), Term("eventDate", "Event"),
     Term("scientificName", "Taxon"), Term("occurrenceRemarks", "Occurrence")}

ReportVocabularies == { [n \in {t.name : t \in T} |-> CHOOSE t \in T : t.name = n] :
                          T \in SUBSET ReportTerms }

ReportFields == {"occurrenceID", "eventDate", "notes"}

\* the lexicon documents whose main records define the fields as `where` says:
\* field -> index of its lexicon, or 0 for a field that no lexicon defines
ReportDocuments ==
    { [i \in 1..Len(LexiconPaths) |->
         [path |-> LexiconPaths[i],
          defs |-> << [def_name |-> "main", properties |-> {}, required |-> {},
                       record |-> {f \in ReportFields : where[f] = i},
                       record_required |-> {}] >>]] :
      where \in [ReportFields -> 0..Len(LexiconPaths)] }

\* largest number of defs of a lexicon document
MaxDefs == 2

\* the names of the defs of a document, in document order
GroupNames == <<"main", "location", "imageEmbed">>

\* the defs of name n: with properties of their own, with a record, with
\* both or with neither, each with its required list
Groups(n) ==
    [def_name : {n},
     properties : SUBSET {"notes", "blobs"},
     required : SUBSET {"notes"},
     record : SUBSET {"notes"},
     record_required : SUBSET {"notes"}]

\* the sequences of n defs, named in document order
RECURSIVE GroupSeqs(_)
GroupSeqs(n) ==
    IF n = 0 THEN {<<>>}
    ELSE {Append(q, g) : q \in GroupSeqs(n - 1), g \in Groups(GroupNames[n])}

\* the documents of at most k defs
GroupedDocuments(k) ==
    { [path |-> OccurrenceJson, defs |-> d] : d \in UNION {GroupSeqs(n) : n \in 0..k} }

\* fields and terms of the pages: a renamed field, the target of its rename,
\* an infrastructure field and a field without rename
PageFields == {"notes", "occurrenceRemarks", "subject", "eventDate"}

PageTermNames == {"notes", "occurrenceRemarks", "subject", "eventDate"}

PageClasses == {"Occurrence", "Identification", "MaterialEntity"}

PageVocabularies ==
    { [n \in DOMAIN v |-> Term(n, v[n])] :
        v \in UNION { [D -> PageClasses] : D \in UpTo(PageTermNames, MaxTerms) } }

\* the document of model m whose main record has the fields fs
PageDocument(m, fs) ==
    [path |-> MODELS[m].lexicon,
     defs |-> << [def_name |-> "main", properties |-> {}, required |-> {},
                  record |-> fs, record_required |-> {}] >>]

PageCalls ==
    { [fn |-> "generate_model_page", model |-> m, lex |-> PageDocument(m, fs), terms |-> t] :
        m \in 1..Len(MODELS), fs \in SUBSET PageFields, t \in PageVocabularies }

\* the sequences without repetition of elements of S
Orderings(S) ==
    { q \in UNION { [1..n -> S] : n \in 0..Cardinality(S) } :
        \A a, b \in DOMAIN q : a # b => q[a] # q[b] }

\* items of mapped: fields of two classes, one of them renamed
MappedItems ==
    { [key |-> "occurrenceID", value |-> Term("occurrenceID", "Occurrence")],
      [key |-> "notes", value |-> Term("occurrenceRemarks", "Occurrence")],
      [key |-> "eventDate", value |-> Term("eventDate", "Event")] }

\* items of unimplemented: terms of two classes
UnimplementedItems ==
    { [key |-> "scientificName", value |-> Term("scientificName", "Taxon")],
      [key |-> "kingdom", value |-> Term("kingdom", "Taxon")],
      [key |-> "dateIdentified", value |-> Term("dateIdentified", "Identification")] }

InitCalls ==
    /\ dwc_terms = EmptyDict
    /\ lexicons = [i \in 1..Len(LexiconPaths) |-> Document({}, i)]
    /\ NotStarted
    /\ call \in
          [fn : {"extract_class"}, organized_in : Paths]
            \cup [fn : {"load_dwc_terms"}, rows : RowFiles(MaxRows)]
            \cup [fn : {"resolve_contextual"}, rules : RuleTables,
                  lexicon_fields : LoadedFields, terms : TargetTerms]
            \cup [fn : {"dwc_crossref.main"}, docs : ReportDocuments,
                  terms : ReportVocabularies]
            \cup [fn : {"load_lexicon_properties_flat"}, lex : GroupedDocuments(MaxDefs)]
            \cup PageCalls
            \cup [fn : {"print_report"}, mapped : Orderings(MappedItems),
                  unimplemented : Orderings(UnimplementedItems)]
    /\ result = Pending

CallExtractClass ==
    /\ call.fn = "extract_class" /\ result = Pending
    /\ result' = Returned(extract_class(call.organized_in))
    /\ UNCHANGED <<main_vars, call>>

CallLoadDwcTerms ==
    /\ call.fn = "load_dwc_terms" /\ result = Pending
    /\ result' = Returned(load_dwc_terms(call.rows))
    /\ UNCHANGED <<main_vars, call>>

\* the report of dwc_crossref.main on a vocabulary and lexicon documents
CallCrossrefMain ==
    /\ call.fn = "dwc_crossref.main" /\ result = Pending
    /\ result' = Returned(crossref_main(call.docs, call.terms))
    /\ UNCHANGED <<main_vars, call>>

\* generate_model_page on a lexicon document and its flattened properties
CallGenerateModelPage ==
    /\ call.fn = "generate_model_page" /\ result = Pending
    /\ result' = Returned(generate_model_page(MODELS[call.model], call.lex,
                                              load_lexicon_properties_flat(call.lex),
                                              call.terms))
    /\ UNCHANGED <<main_vars, call>>

\* the grouped listings of dwc_crossref.main on dicts in some order of insertion
CallPrintReport ==
    /\ call.fn = "print_report" /\ result = Pending
    /\ result' = Returned(print_report(call.mapped, call.unimplemented))
    /\ UNCHANGED <<main_vars, call>>

CallLoadLexiconPropertiesFlat ==
    /\ call.fn = "load_lexicon_properties_flat" /\ result = Pending
    /\ result' = Returned(load_lexicon_properties_flat(call.lex))
    /\ UNCHANGED <<main_vars, call>>

\* the loops of dwc_crossref.main, lines 147-155, on a rule table
CallResolveContextual ==
    /\ call.fn = "resolve_contextual" /\ result = Pending
    /\ result' = Returned(resolve_contextual(call.rules, call.lexicon_fields, call.terms))
    /\ UNCHANGED <<main_vars, call>>

NextCalls ==
    \/ CallExtractClass
    \/ CallLoadDwcTerms
    \/ CallResolveContextual
    \/ CallCrossrefMain
    \/ CallLoadLexiconPropertiesFlat
    \/ CallGenerateModelPage
    \/ CallPrintReport

SpecCalls == InitCalls /\ [][NextCalls]_vars

----------------------------------------------------------------------------
(* Positions of the scripts *)

\* the classification loop of dwc_crossref.main has classified every field
Classified ==
    \/ "crossref" \in ran
    \/ script = "crossref" /\ (pc = "summary" \/ (pc = "classify" /\ todo = <<>>))

\* unimplemented has been computed
Scoped == "crossref" \in ran \/ (script = "crossref" /\ pc = "summary")

\* the summary of dwc_crossref.main has been printed
Reported == "crossref" \in ran

\* the index page has been generated
Indexed == "html" \in ran \/ (script = "html" /\ pc = "pages")

----------------------------------------------------------------------------
(* The inputs as the claims read them *)

\* the field names that the defs of a lexicon document define
FieldsOf(lex) ==
    UNION {lex.defs[j].properties \cup lex.defs[j].record : j \in 1..Len(lex.defs)}

\* the field names of all lexicon documents
InputFields == UNION {FieldsOf(lexicons[i]) : i \in 1..Len(lexicons)}

\* the fields classified so far
Seen == (DOMAIN mapped) \cup unmapped

\* the manual rename of a field has a target that is in the vocabulary
ManualTarget(f) == f \in DOMAIN FIELD_TO_DWC /\ FIELD_TO_DWC[f] \in DOMAIN dwc_terms

----------------------------------------------------------------------------
(* C1: partition.  mapped and unmapped are always disjoint and hold only
   names of the flattened field set, which is the set of field names of the
   loaded lexicons; the fields classified so far are those the loop has
   passed; and once the loop has ended every field of the flattened field
   set is in exactly one of mapped and unmapped. *)
C1_Partition ==
    /\ (DOMAIN mapped) \cap unmapped = {}
    /\ Seen \subseteq all_fields
    /\ (script = "crossref" \/ Reported) => all_fields = InputFields
    /\ (script = "crossref" /\ pc = "classify") =>
          Seen = all_fields \ {todo[i] : i \in 1..Len(todo)}
    /\ Classified => Seen = all_fields

\* the loop has ended with a mapped field, an unmapped infrastructure field
\* whose name is a term name, and an unmapped field that is no infrastructure
C1_Witness ==
    /\ Classified
    /\ DOMAIN mapped # {}
    /\ \E f \in unmapped : f \in ATPROTO_FIELDS /\ f \in DOMAIN dwc_terms
    /\ Cardinality(all_fields) >= 2

----------------------------------------------------------------------------
(* C2: precedence.  Once the loop has ended, a field that is no
   infrastructure field is mapped to its contextual resolution if it has one,
   even if a term has its name or its manual rename has a target; else to the
   term of its name if there is one, even if its manual rename has a target;
   else to the target of its manual rename if that is in the vocabulary; else
   it is unmapped. *)
C2_Precedence ==
    Classified =>
      \A f \in all_fields \ ATPROTO_FIELDS :
        IF f \in DOMAIN contextual_resolved
        THEN f \in DOMAIN mapped /\ mapped[f] = contextual_resolved[f]
        ELSE IF f \in DOMAIN dwc_terms
        THEN f \in DOMAIN mapped /\ mapped[f] = dwc_terms[f]
        ELSE IF ManualTarget(f)
        THEN f \in DOMAIN mapped /\ mapped[f] = dwc_terms[FIELD_TO_DWC[f]]
        ELSE f \in unmapped

\* a field with a contextual resolution, a term of its own name and a manual
\* rename with a target has been classified, the three naming two terms
C2_Witness ==
    /\ Classified
    /\ \E f \in all_fields \ ATPROTO_FIELDS :
          /\ f \in DOMAIN contextual_resolved
          /\ f \in DOMAIN dwc_terms
          /\ ManualTarget(f)
          /\ contextual_resolved[f] # dwc_terms[f]

\* a field without contextual resolution, with a term of its own name and a
\* manual rename whose target is another term, has been classified
C2_WitnessDirectOverManual ==
    /\ Classified
    /\ \E f \in all_fields \ ATPROTO_FIELDS :
          /\ f \notin DOMAIN contextual_resolved
          /\ f \in DOMAIN dwc_terms
          /\ ManualTarget(f)
          /\ dwc_terms[FIELD_TO_DWC[f]] # dwc_terms[f]

----------------------------------------------------------------------------
(* C3: infrastructure precedence.  A field of ATPROTO_FIELDS is never a key of
   mapped and is in unmapped once the loop has ended; in the HTML pages it
   gets no DwC link in the def tables, and the mapped count of every
   statistic counts only terms that a field outside ATPROTO_FIELDS maps to. *)
HtmlTargets(props) ==
    {dwc_name_of(f) : f \in (DOMAIN props) \ HTML_ATPROTO_FIELDS}

RelevantNames(classes) == {n \in DOMAIN dwc_terms : dwc_terms[n].class \in classes}

AllProps == UNION {DOMAIN model_props[m] : m \in 1..Len(model_props)}

AllClasses == UNION {MODELS[m].classes : m \in 1..Len(MODELS)}

C3_Infrastructure ==
    /\ \A f \in ATPROTO_FIELDS : f \notin DOMAIN mapped
    /\ Classified => \A f \in all_fields \cap ATPROTO_FIELDS : f \in unmapped
    /\ \A p \in 1..Len(pages) : \A j \in 1..Len(pages[p].ref) :
          \A f \in (DOMAIN pages[p].ref[j]) \cap HTML_ATPROTO_FIELDS : pages[p].ref[j][f] = ""
    /\ \A p \in 1..Len(pages) :
          pages[p].stats.mapped =
            Cardinality(RelevantNames(MODELS[p].classes) \cap HtmlTargets(model_props[p]))
    /\ Indexed =>
          /\ \A m \in 1..Len(MODELS) :
                index_stats[m].mapped =
                  Cardinality(RelevantNames(MODELS[m].classes) \cap HtmlTargets(model_props[m]))
          /\ global_stats.mapped =
                Cardinality(RelevantNames(AllClasses)
                              \cap {dwc_name_of(f) : f \in AllProps \ HTML_ATPROTO_FIELDS})

\* both scripts have run on a lexicon that defines the infrastructure field
\* "subject" and a vocabulary with a term "subject" of a class that the
\* console report and the page of that lexicon cover
C3_Witness ==
    /\ ran = {"crossref", "html"}
    /\ "subject" \in FieldsOf(load_lexicon(lexicons, IdentificationJson))
    /\ "subject" \in DOMAIN dwc_terms
    /\ dwc_terms["subject"].class = "Identification"
    /\ "subject" \in unmapped

----------------------------------------------------------------------------
(* C4: contextual override.  Once the loop has ended, for every contextual
   rule field -> {context key: term name}: if the path of some lexicon
   contains the context key, that lexicon defines the field, the term name is
   in the vocabulary and the field is no infrastructure field, the field is
   mapped to that term. *)
C4_ContextualOverride ==
    Classified =>
      \A r \in 1..Len(CONTEXTUAL_MAPPINGS) :
        \A j \in 1..Len(CONTEXTUAL_MAPPINGS[r].ctx_map) :
          \A i \in 1..Len(lexicons) :
            LET f == CONTEXTUAL_MAPPINGS[r].field
                c == CONTEXTUAL_MAPPINGS[r].ctx_map[j]
            IN  ( /\ f \notin ATPROTO_FIELDS
                  /\ c.dwc_name \in DOMAIN dwc_terms
                  /\ f \in FieldsOf(lexicons[i])
                  /\ Contains(lexicons[i].path, c.ctx_key) )
                => (f \in DOMAIN mapped /\ mapped[f] = dwc_terms[c.dwc_name])

\* "blobs", which has no manual rename and no term of its name, is defined by
\* the occurrence lexicon and has been mapped to associatedMedia
C4_Witness ==
    /\ Classified
    /\ "blobs" \in FieldsOf(load_lexicon(lexicons, OccurrenceJson))
    /\ "blobs" \notin DOMAIN dwc_terms
    /\ ~ManualTarget("blobs")
    /\ "blobs" \in DOMAIN mapped
    /\ mapped["blobs"].name = "associatedMedia"

----------------------------------------------------------------------------
(* C5: createdAt only in identification context.  Once the loop has ended,
   if no lexicon whose path contains "identification" defines createdAt, then
   createdAt is not mapped to dateIdentified. *)
C5_CreatedAtOnlyInIdentification ==
    Classified =>
      ( (~ \E i \in 1..Len(lexicons) :
             /\ "createdAt" \in FieldsOf(lexicons[i])
             /\ Contains(lexicons[i].path, KeyIdentification))
        => ~("createdAt" \in DOMAIN mapped /\ mapped["createdAt"].name = "dateIdentified") )

----------------------------------------------------------------------------
(* C6: unimplemented scoping.  Once unimplemented has been computed, its keys
   are exactly the names of the vocabulary terms whose class is in
   RELEVANT_CLASSES and that no field is mapped to, each with its term. *)
C6_Unimplemented ==
    Scoped =>
      /\ DOMAIN unimplemented =
            {n \in DOMAIN dwc_terms :
               /\ dwc_terms[n].class \in RELEVANT_CLASSES
               /\ \A f \in DOMAIN mapped : mapped[f].name # n}
      /\ \A n \in DOMAIN unimplemented : unimplemented[n] = dwc_terms[n]

\* the vocabulary has a term of a relevant class and a term of another class,
\* no field is mapped to either, and only the first is unimplemented
C6_Witness ==
    /\ Scoped
    /\ all_fields # {}
    /\ \E n \in DOMAIN dwc_terms :
          /\ dwc_terms[n].class \notin RELEVANT_CLASSES
          /\ \A f \in DOMAIN mapped : mapped[f].name # n
          /\ n \notin DOMAIN unimplemented
    /\ DOMAIN unimplemented # {}

----------------------------------------------------------------------------
(* C7: coverage as a fraction of the relevant terms.  When the vocabulary has
   terms of the relevant classes, the percentage of the summary is 100 times
   the number of those terms that some field is mapped to, divided by the
   number of those terms. *)
C7_CoverageOfRelevantTerms ==
    Reported =>
      LET relevant == RelevantNames(RELEVANT_CLASSES)
          covered == relevant \cap {mapped[f].name : f \in DOMAIN mapped}
      IN  relevant # {} =>
            /\ "num" \in DOMAIN pct
            /\ pct.num * Cardinality(relevant) = 100 * Cardinality(covered) * pct.den

----------------------------------------------------------------------------
(* C8: coverage formula and its boundary.  The percentage of the summary is
   100 * mapped / (mapped + unimplemented), and 0 when that denominator is 0;
   every statistic of the HTML pages has as total the number of terms of its
   classes, and pct 0 when that total is 0; none is a division error. *)
HtmlStatsOk(stats, classes) ==
    /\ stats.total = Cardinality(RelevantNames(classes))
    /\ "error" \notin DOMAIN stats.pct
    /\ stats.total = 0 => stats.pct = Zero

C8_CoverageBoundary ==
    /\ Reported =>
          LET m == Cardinality(DOMAIN mapped)
              u == Cardinality(DOMAIN unimplemented)
          IN  pct = IF m + u = 0 THEN Zero ELSE [num |-> 100 * m, den |-> m + u]
    /\ \A p \in 1..Len(pages) : HtmlStatsOk(pages[p].stats, MODELS[p].classes)
    /\ Indexed =>
          /\ \A m \in 1..Len(MODELS) : HtmlStatsOk(index_stats[m], MODELS[m].classes)
          /\ HtmlStatsOk(global_stats, AllClasses)

\* both scripts have run on lexicons with fields and a vocabulary with terms,
\* no field is mapped, no term is unimplemented and no term is of a class
\* that the pages cover
C8_Witness ==
    /\ ran = {"crossref", "html"}
    /\ all_fields # {}
    /\ DOMAIN dwc_terms # {}
    /\ Cardinality(DOMAIN mapped) + Cardinality(DOMAIN unimplemented) = 0
    /\ pct = Zero
    /\ global_stats.total = 0
    /\ global_stats.pct = Zero

----------------------------------------------------------------------------
(* C9: contextual rule with an absent target.  StaleContextual(f): the
   contextual rule of f matches a lexicon (the path contains the context key
   and the lexicon defines f) and its target is not in the vocabulary. *)
StaleContextual(f) ==
    \E r \in 1..Len(CONTEXTUAL_MAPPINGS) :
      \E j \in 1..Len(CONTEXTUAL_MAPPINGS[r].ctx_map) :
        \E i \in 1..Len(lexicons) :
          /\ CONTEXTUAL_MAPPINGS[r].field = f
          /\ CONTEXTUAL_MAPPINGS[r].ctx_map[j].dwc_name \notin DOMAIN dwc_terms
          /\ f \in FieldsOf(lexicons[i])
          /\ Contains(lexicons[i].path, CONTEXTUAL_MAPPINGS[r].ctx_map[j].ctx_key)

(* C9 as claimed: once the loop has ended, a field that is no infrastructure
   field and whose contextual rule is stale is unmapped. *)
C9_StaleContextualUnmapped ==
    Classified =>
      \A f \in all_fields \ ATPROTO_FIELDS : StaleContextual(f) => f \in unmapped

(* C9 as amended: such a field has no contextual resolution and is classified
   by the remaining rules: mapped to the term of its own name if there is
   one, else to the target of its manual rename if that is in the vocabulary,
   and unmapped only if neither applies. *)
C9_StaleContextualFallsThrough ==
    Classified =>
      \A f \in all_fields \ ATPROTO_FIELDS :
        StaleContextual(f) =>
          /\ f \notin DOMAIN contextual_resolved
          /\ IF f \in DOMAIN dwc_terms
             THEN f \in DOMAIN mapped /\ mapped[f] = dwc_terms[f]
             ELSE IF ManualTarget(f)
             THEN f \in DOMAIN mapped /\ mapped[f] = dwc_terms[FIELD_TO_DWC[f]]
             ELSE f \in unmapped

\* a field with a stale contextual rule and no term of its name is unmapped,
\* next to a mapped field
C9_Witness ==
    /\ Classified
    /\ \E f \in all_fields \ ATPROTO_FIELDS :
          StaleContextual(f) /\ f \notin DOMAIN dwc_terms /\ f \in unmapped
    /\ DOMAIN mapped # {}

\* a field with a stale contextual rule is mapped to the term of its name
C9_WitnessDirect ==
    /\ Classified
    /\ \E f \in all_fields \ ATPROTO_FIELDS :
          StaleContextual(f) /\ f \in DOMAIN mapped /\ mapped[f].name = f

----------------------------------------------------------------------------
(* C10: stale manual rename.  Once the loop has ended, a field that is no
   infrastructure field, has no contextual resolution and no term of its
   name, and whose manual rename names a term absent from the vocabulary, is
   unmapped, and every field has been classified; the running script is
   always at a position that has a next step (it has raised nothing). *)
StaleManual(f) ==
    /\ f \notin ATPROTO_FIELDS
    /\ f \notin DOMAIN contextual_resolved
    /\ f \notin DOMAIN dwc_terms
    /\ f \in DOMAIN FIELD_TO_DWC
    /\ FIELD_TO_DWC[f] \notin DOMAIN dwc_terms

C10_StaleManualUnmapped ==
    /\ Classified =>
          \A f \in all_fields :
            StaleManual(f) => (f \in unmapped /\ f \notin DOMAIN mapped /\ Seen = all_fields)
    /\ script = "crossref" => pc \in {"resolve", "classify", "summary"}

\* "notes" is unmapped because occurrenceRemarks is not in the vocabulary,
\* and another field is mapped
C10_Witness ==
    /\ Classified
    /\ "notes" \in all_fields
    /\ StaleManual("notes")
    /\ "notes" \in unmapped
    /\ DOMAIN mapped # {}

----------------------------------------------------------------------------
(* C11: several matching context keys.  KeyMatches: key j of the rule matches
   lexicon i: the path contains the key, the lexicon defines the field of the
   rule, and the target of the key is in the vocabulary. *)
KeyMatches(rule, lexicon_fields, terms, i, j) ==
    /\ Contains(lexicon_fields[i].path, rule.ctx_map[j].ctx_key)
    /\ \E k \in 1..Len(lexicon_fields[i].defs) : rule.field \in lexicon_fields[i].defs[k].fields
    /\ rule.ctx_map[j].dwc_name \in DOMAIN terms

\* the keys of a rule that match some lexicon
MatchingKeys(rule, lexicon_fields, terms) ==
    {j \in 1..Len(rule.ctx_map) :
        \E i \in 1..Len(lexicon_fields) : KeyMatches(rule, lexicon_fields, terms, i, j)}

\* the lexicons that some key of a rule matches
MatchedLexicons(rule, lexicon_fields, terms) ==
    {i \in 1..Len(lexicon_fields) :
        \E j \in 1..Len(rule.ctx_map) : KeyMatches(rule, lexicon_fields, terms, i, j)}

(* C11 as claimed: when several keys of a rule match, the resolution of the
   field is the target of the last matching key in declaration order. *)
C11_LastDeclaredKeyWins ==
    (call.fn = "resolve_contextual" /\ result # Pending) =>
      \A r \in 1..Len(call.rules) :
        LET rule == call.rules[r]
            M == MatchingKeys(rule, call.lexicon_fields, call.terms)
        IN  Cardinality(M) >= 2 =>
              /\ rule.field \in DOMAIN result.value
              /\ result.value[rule.field] = call.terms[rule.ctx_map[Last(M)].dwc_name]

(* C11 as amended: a field has a resolution exactly if some key of its rule
   matches, and the resolution is the target of the last assignment of the
   loops: of the keys that match the last lexicon in scan order that any key
   matches, the last in declaration order. *)
C11_LastWriteWins ==
    (call.fn = "resolve_contextual" /\ result # Pending) =>
      \A r \in 1..Len(call.rules) :
        LET rule == call.rules[r]
            L == MatchedLexicons(rule, call.lexicon_fields, call.terms)
        IN  IF L = {}
            THEN rule.field \notin DOMAIN result.value
            ELSE LET lex == Last(L)
                     key == Last({j \in 1..Len(rule.ctx_map) :
                                    KeyMatches(rule, call.lexicon_fields, call.terms, lex, j)})
                 IN  /\ rule.field \in DOMAIN result.value
                     /\ result.value[rule.field] = call.terms[rule.ctx_map[key].dwc_name]

\* two keys with different targets match, the key declared last matches only a
\* lexicon that is scanned first, and the resolution is the target of the
\* other key
C11_Witness ==
    /\ call.fn = "resolve_contextual" /\ result # Pending
    /\ \E r \in 1..Len(call.rules) :
          LET rule == call.rules[r]
              M == MatchingKeys(rule, call.lexicon_fields, call.terms)
          IN  /\ Cardinality(M) >= 2
              /\ rule.field \in DOMAIN result.value
              /\ result.value[rule.field].name # rule.ctx_map[Last(M)].dwc_name

\* two keys with different targets match one and the same lexicon, and the
\* resolution is the target of the key declared last
C11_WitnessOnePath ==
    /\ call.fn = "resolve_contextual" /\ result # Pending
    /\ \E r \in 1..Len(call.rules) :
          LET rule == call.rules[r]
              L == MatchedLexicons(rule, call.lexicon_fields, call.terms)
              M == MatchingKeys(rule, call.lexicon_fields, call.terms)
          IN  /\ Cardinality(L) = 1
              /\ Cardinality(M) >= 2
              /\ \E a, b \in M : rule.ctx_map[a].dwc_name # rule.ctx_map[b].dwc_name
              /\ result.value[rule.field].name = rule.ctx_map[Last(M)].dwc_name

----------------------------------------------------------------------------
(* C12: end-to-end scenario.  ScenarioCall: dwc_crossref.main is run on the
   vocabulary occurrenceID (Occurrence), eventDate (Event), scientificName
   (Taxon), so without occurrenceRemarks, and on lexicons that define exactly
   the fields occurrenceID, eventDate and notes. *)
ScenarioTerms ==
    [occurrenceID |-> Term("occurrenceID", "Occurrence"),
     eventDate |-> Term("eventDate", "Event"),
     scientificName |-> Term("scientificName", "Taxon")]

ScenarioCall ==
    /\ call.fn = "dwc_crossref.main"
    /\ call.terms = ScenarioTerms
    /\ UNION {FieldsOf(call.docs[i]) : i \in 1..Len(call.docs)}
          = {"occurrenceID", "eventDate", "notes"}

(* C12: on the scenario, dwc_crossref.main maps occurrenceID and eventDate to
   the terms of their names, leaves notes unmapped, finds scientificName
   unimplemented, and its coverage is 2/3 of 100, printed as 67. *)
C12_Scenario ==
    (ScenarioCall /\ result # Pending) =>
      /\ result.value.mapped =
            [occurrenceID |-> Term("occurrenceID", "Occurrence"),
             eventDate |-> Term("eventDate", "Event")]
      /\ result.value.unmapped = {"notes"}
      /\ result.value.unimplemented = [scientificName |-> Term("scientificName", "Taxon")]
      /\ result.value.pct.num * 3 = 2 * 100 * result.value.pct.den
      /\ result.value.printed = 67

\* the report of the scenario has been made, with notes defined by another
\* lexicon than the two other fields
C12_Witness ==
    /\ ScenarioCall
    /\ result # Pending
    /\ "notes" \in FieldsOf(call.docs[1])
    /\ {"occurrenceID", "eventDate"} \subseteq FieldsOf(call.docs[2])
    /\ {"Occurrence", "Event", "Taxon"} \subseteq RELEVANT_CLASSES

----------------------------------------------------------------------------
(* C13: direct name match in the HTML pages.  ClaimedTarget: the term name
   that a field maps to when a same-named term is tried before the rename
   table, or "" *)
ClaimedTarget(f, terms) ==
    IF f \in DOMAIN terms THEN f
    ELSE IF f \in DOMAIN HTML_FIELD_TO_DWC /\ HTML_FIELD_TO_DWC[f] \in DOMAIN terms
         THEN HTML_FIELD_TO_DWC[f]
    ELSE ""

(* C13: on a model page, a field that is no infrastructure field and whose
   name is a term name has that term as its DwC link in the def tables and is
   among the mapped fields of the alignment tables; if the class of the term
   is one of the model, the row of the term shows a lexicon field; and the
   mapped count of the statistics counts the terms of the model's classes
   that a field maps to, a same-named term going before the rename table. *)
C13_SameNameMapped ==
    (call.fn = "generate_model_page" /\ result # Pending) =>
      LET page == result.value
          terms == call.terms
          classes == MODELS[call.model].classes
          fields == FieldsOf(call.lex) \ HTML_ATPROTO_FIELDS
      IN  /\ \A f \in fields \cap DOMAIN terms :
                /\ \A j \in 1..Len(page.ref) : f \in DOMAIN page.ref[j] => page.ref[j][f] = f
                /\ f \in page.dwc.mapped_lex_fields
                /\ terms[f].class \in classes =>
                      \E i \in 1..Len(page.dwc.tables[terms[f].class]) :
                        /\ page.dwc.tables[terms[f].class][i].term = f
                        /\ page.dwc.tables[terms[f].class][i].field # ""
          /\ page.stats.mapped =
                Cardinality({n \in DOMAIN terms :
                               /\ terms[n].class \in classes
                               /\ \E f \in fields : ClaimedTarget(f, terms) = n})

----------------------------------------------------------------------------
(* C14: partition of the alignment tables.  On every model page, each field
   of the flattened properties is either among the mapped fields of
   render_dwc_tables or in its Lexicon-only listing, not both and not
   neither, and an infrastructure field is in the Lexicon-only listing. *)
C14_TablesPartition ==
    \A p \in 1..Len(pages) :
      LET listed == {pages[p].dwc.lexicon_only[i] : i \in 1..Len(pages[p].dwc.lexicon_only)}
      IN  \A f \in DOMAIN model_props[p] :
            /\ (f \in pages[p].dwc.mapped_lex_fields) # (f \in listed)
            /\ f \in HTML_ATPROTO_FIELDS => f \in listed

----------------------------------------------------------------------------
(* C15: load_dwc_terms.  KeptRows: the rows that are recommended, whose
   rdf_type does not contain "Class" and whose organized_in does not contain
   "UseWithIRI". *)
KeptRows(rows) ==
    {i \in 1..Len(rows) :
        /\ rows[i].status = "recommended"
        /\ ~Contains(rows[i].rdf_type, ClassWord)
        /\ ~Contains(rows[i].organized_in, UseWithIRI)}

(* C15: the terms that load_dwc_terms returns have as names exactly the names
   of the kept rows, a dropped row adds none, and the term of each name is
   built of the first kept row of that name: its label and the class of its
   organized_in. *)
C15_LoadDwcTerms ==
    (call.fn = "load_dwc_terms" /\ result # Pending) =>
      LET rows == call.rows
          terms == result.value
      IN  /\ DOMAIN terms = {rows[i].term_localName : i \in KeptRows(rows)}
          /\ \A n \in DOMAIN terms :
                LET first == CHOOSE i \in KeptRows(rows) :
                                /\ rows[i].term_localName = n
                                /\ \A k \in KeptRows(rows) :
                                      rows[k].term_localName = n => i <= k
                IN  terms[n] = [name |-> n, label |-> rows[first].label,
                                class |-> extract_class(rows[first].organized_in)]

\* two kept rows of one name, with different labels and classes, have been
\* loaded
C15_Witness ==
    /\ call.fn = "load_dwc_terms" /\ result # Pending
    /\ \E i, k \in KeptRows(call.rows) :
          /\ i < k
          /\ call.rows[i].term_localName = call.rows[k].term_localName
          /\ call.rows[i].label # call.rows[k].label
          /\ extract_class(call.rows[i].organized_in)
                # extract_class(call.rows[k].organized_in)

\* rows that are all dropped, one of them an IRI-only variant, have been loaded
\* and nothing is retained
C15_WitnessDropped ==
    /\ call.fn = "load_dwc_terms" /\ result # Pending
    /\ Len(call.rows) = MaxRows
    /\ KeptRows(call.rows) = {}
    /\ \E i \in 1..Len(call.rows) :
          call.rows[i].status = "recommended" /\ Contains(call.rows[i].organized_in, UseWithIRI)
    /\ result.value = EmptyDict

----------------------------------------------------------------------------
(* C16: extract_class.  FinalSegments: the non-empty "/"-free stretches of a
   path that only "/" follow. *)
FinalSegments(path) ==
    { SubSeq(path, i, j) : <<i, j>> \in
        { w \in (1..Len(path)) \X (1..Len(path)) :
            /\ w[1] <= w[2]
            /\ \A k \in w[1]..w[2] : path[k] # "/"
            /\ (w[1] = 1 \/ path[w[1] - 1] = "/")
            /\ \A k \in (w[2] + 1)..Len(path) : path[k] = "/" } }

(* C16: extract_class returns "Record-level" for the empty path; for any
   other path the result is not the empty string and is the final non-empty
   segment of the path, or "Record-level" if that segment is "1.1" or
   "terms". *)
C16_ExtractClass ==
    (call.fn = "extract_class" /\ result # Pending) =>
      IF call.organized_in = <<>>
      THEN result.value = RecordLevel
      ELSE /\ result.value # <<>>
           /\ \E seg \in FinalSegments(call.organized_in) :
                 result.value = IF seg \in {Marker11, MarkerTerms} THEN RecordLevel ELSE seg

----------------------------------------------------------------------------
(* C17: load_lexicon_properties_flat.  The properties and the required set of
   def j of a document as the claim reads them: those of the def itself when
   it has properties of its own, otherwise those of its record. *)
GroupProperties(lex, j) ==
    IF lex.defs[j].properties # {} THEN lex.defs[j].properties ELSE lex.defs[j].record

GroupRequired(lex, j) ==
    IF lex.defs[j].properties # {} THEN lex.defs[j].required
    ELSE lex.defs[j].record_required

(* C17: the flat map has exactly the field names of the defs of the document,
   and the entry of a field has the def name of the last def in document
   order that has the field, and required true exactly if the field is in
   the required set of that def. *)
C17_FlatLaterGroupWins ==
    (call.fn = "load_lexicon_properties_flat" /\ result # Pending) =>
      LET lex == call.lex
          flat == result.value
      IN  /\ DOMAIN flat = UNION {GroupProperties(lex, j) : j \in 1..Len(lex.defs)}
          /\ \A f \in DOMAIN flat :
                LET j == Last({k \in 1..Len(lex.defs) : f \in GroupProperties(lex, k)})
                IN  /\ flat[f].def = lex.defs[j].def_name
                    /\ flat[f].required = (f \in GroupRequired(lex, j))

\* two defs have a field, the first, with properties of its own, requires it,
\* the second has it in its record, which does not require it although the
\* def's own required list names it, and the entry is that of the second def
C17_Witness ==
    /\ call.fn = "load_lexicon_properties_flat" /\ result # Pending
    /\ Len(call.lex.defs) >= 2
    /\ \E f \in DOMAIN result.value :
          /\ f \in call.lex.defs[1].properties /\ f \in call.lex.defs[1].required
          /\ call.lex.defs[2].properties = {}
          /\ f \in call.lex.defs[2].record
          /\ f \in call.lex.defs[2].required
          /\ f \notin call.lex.defs[2].record_required
          /\ result.value[f] = [required |-> FALSE, def |-> call.lex.defs[2].def_name]

----------------------------------------------------------------------------
(* C18: grouped listings.  Ascending(q): a sequence of names in strictly
   ascending order. *)
Ascending(q) == \A i, j \in 1..Len(q) : i < j => Rank(q[i]) < Rank(q[j])

Reverse(q) == [i \in 1..Len(q) |-> q[Len(q) + 1 - i]]

(* C18: the mapped listing has one group for each class of a mapped term,
   the groups in ascending order of class name, and the lines of a group are
   the fields mapped to terms of that class, each with the name of its term,
   in ascending order of field name; the unimplemented listing has one group
   for each class of an unimplemented term, in ascending order of class name,
   whose lines are the names of the terms of that class in ascending order;
   and the listings of the same dicts filled in the reverse order are the
   same. *)
C18_GroupedListings ==
    (call.fn = "print_report" /\ result # Pending) =>
      LET m == result.value.mapped
          u == result.value.unimplemented
          m_in == {call.mapped[i] : i \in 1..Len(call.mapped)}
          u_in == {call.unimplemented[i] : i \in 1..Len(call.unimplemented)}
      IN  /\ Ascending([c \in 1..Len(m) |-> m[c].cls])
          /\ {m[c].cls : c \in 1..Len(m)} = {it.value.class : it \in m_in}
          /\ \A c \in 1..Len(m) :
                /\ Ascending([i \in 1..Len(m[c].lines) |-> m[c].lines[i].field])
                /\ {m[c].lines[i] : i \in 1..Len(m[c].lines)} =
                      {[field |-> it.key, term |-> it.value.name] :
                          it \in {x \in m_in : x.value.class = m[c].cls}}
          /\ Ascending([c \in 1..Len(u) |-> u[c].cls])
          /\ {u[c].cls : c \in 1..Len(u)} = {it.value.class : it \in u_in}
          /\ \A c \in 1..Len(u) :
                /\ Ascending(u[c].lines)
                /\ {u[c].lines[i] : i \in 1..Len(u[c].lines)} =
                      {it.value.name : it \in {x \in u_in : x.value.class = u[c].cls}}
          /\ result.value = print_report(Reverse(call.mapped), Reverse(call.unimplemented))

\* the listings have been made of dicts that were filled in descending order
\* of field, term and class name, with two classes and two entries of one
\* class in each
C18_Witness ==
    /\ call.fn = "print_report" /\ result # Pending
    /\ Len(call.mapped) = Cardinality(MappedItems)
    /\ Len(call.unimplemented) = Cardinality(UnimplementedItems)
    /\ Ascending(Reverse([i \in 1..Len(call.mapped) |-> call.mapped[i].key]))
    /\ Ascending(Reverse([i \in 1..Len(call.unimplemented) |-> call.unimplemented[i].key]))
    /\ Len(result.value.mapped) >= 2
    /\ Len(result.value.unimplemented) >= 2

----------------------------------------------------------------------------
(* C19: soundness of the mapping.  RelatedNames(f): the term names that a
   rule or the name of the field relates f to. *)
RelatedNames(f) ==
    {f}
      \cup (IF f \in DOMAIN FIELD_TO_DWC THEN {FIELD_TO_DWC[f]} ELSE {})
      \cup UNION { { CONTEXTUAL_MAPPINGS[r].ctx_map[j].dwc_name :
                        j \in 1..Len(CONTEXTUAL_MAPPINGS[r].ctx_map) } :
                      r \in { x \in 1..Len(CONTEXTUAL_MAPPINGS) :
                                CONTEXTUAL_MAPPINGS[x].field = f } }

(* C19: at every point of dwc_crossref.main, every field of mapped is a field
   of the lexicons that is no infrastructure field, and is mapped to a term
   of the vocabulary, under that term's own name, whose name is the field's
   name, the target of its manual rename or a target of its contextual
   rule. *)
C19_Soundness ==
    \A f \in DOMAIN mapped :
      /\ f \in InputFields
      /\ f \notin ATPROTO_FIELDS
      /\ mapped[f].name \in DOMAIN dwc_terms
      /\ mapped[f] = dwc_terms[mapped[f].name]
      /\ mapped[f].name \in RelatedNames(f)

\* the loop has ended with a field mapped by its contextual rule and a field
\* mapped by its manual rename, neither to a term of its own name
C19_Witness ==
    /\ Classified
    /\ \E f, g \in DOMAIN mapped :
          /\ f \in DOMAIN contextual_resolved
          /\ mapped[f].name # f
          /\ g \notin DOMAIN contextual_resolved
          /\ mapped[g].name # g
          /\ mapped[g].name = FIELD_TO_DWC[g]

====
